---- MODULE Spec2Model ----
(***************************************************************************)
(* copy-npm-package: copyPackageVersions (src/src/index.ts, the current    *)
(* implementation at lines 247-364) as a state machine.                    *)
(*                                                                         *)
(* Strings the code inspects character by character (version keys, package *)
(* names, registry URLs) are sequences of one-character strings.           *)
(* One action is one stretch of synchronous code between two awaits: an    *)
(* HTTP request is issued at the end of one action and its response is     *)
(* consumed at the start of the next.                                      *)
(***************************************************************************)
EXTENDS Integers, Sequences, FiniteSets, TLC

(***************************************************************************)
(* Bounds of the model.                                                    *)
(***************************************************************************)
MaxKeys == 3
MaxTargetKeys == 1
MaxRuns == 2

(***************************************************************************)
(* Characters and strings.                                                 *)
(***************************************************************************)
Digits == <<"0", "1", "2", "3", "4", "5", "6", "7", "8", "9">>

\* The characters of the model's strings in UTF-16 code unit order, which is
\* the order JavaScript's < on strings uses.
Alphabet == <<"%", "+", "-", ".", "/">> \o Digits \o <<"@", "F">>
            \o <<"a", "b", "c", "e", "g", "m", "n", "o", "p", "s", "t", "v", "z">>

RECURSIVE IndexIn(_, _, _)
IndexIn(c, seq, i) ==
    IF i > Len(seq) THEN 0
    ELSE IF seq[i] = c THEN i
    ELSE IndexIn(c, seq, i + 1)

CharCode(c) == IndexIn(c, Alphabet, 1)

IsDigit(c) == IndexIn(c, Digits, 1) # 0

DigitVal(c) == IndexIn(c, Digits, 1) - 1

\* String.prototype.indexOf for a one-character pattern, 1-based; 0 = absent.
IndexOf(s, c) == IndexIn(c, s, 1)

RECURSIVE Concat(_)
Concat(ss) == IF ss = <<>> THEN <<>> ELSE Head(ss) \o Concat(Tail(ss))

\* String.prototype.split for a one-character separator.
RECURSIVE Split(_, _)
Split(s, sep) ==
    LET i == IndexOf(s, sep)
    IN  IF i = 0 THEN <<s>>
        ELSE <<SubSeq(s, 1, i - 1)>> \o Split(SubSeq(s, i + 1, Len(s)), sep)

\* JavaScript's a < b on strings: lexicographic by code unit, a proper prefix
\* is smaller.
RECURSIVE StrLess(_, _)
StrLess(a, b) ==
    IF b = <<>> THEN FALSE
    ELSE IF a = <<>> THEN TRUE
    ELSE IF CharCode(Head(a)) # CharCode(Head(b))
         THEN CharCode(Head(a)) < CharCode(Head(b))
    ELSE StrLess(Tail(a), Tail(b))

RECURSIVE ToNumber(_)
ToNumber(s) ==
    IF s = <<>> THEN 0
    ELSE ToNumber(SubSeq(s, 1, Len(s) - 1)) * 10 + DigitVal(s[Len(s)])

(***************************************************************************)
(* The semver package, as the calls of index.ts use it (strict mode).      *)
(***************************************************************************)
AllDigits(s) == s # <<>> /\ \A i \in 1..Len(s) : IsDigit(s[i])

\* NUMERICIDENTIFIER: 0|[1-9]\d*
IsNumericIdentifier(s) == AllDigits(s) /\ (Len(s) > 1 => s[1] # "0")

IsIdentChar(c) == CharCode(c) # 0 /\ c \notin {"%", "+", ".", "/", "@"}

\* A prerelease identifier: numeric without leading zero, or [0-9A-Za-z-]+
\* with at least one non-digit.
IsPrereleaseIdentifier(s) ==
    /\ s # <<>>
    /\ \A i \in 1..Len(s) : IsIdentChar(s[i])
    /\ (AllDigits(s) => IsNumericIdentifier(s))

\* A build identifier: [0-9A-Za-z-]+
IsBuildIdentifier(s) == s # <<>> /\ \A i \in 1..Len(s) : IsIdentChar(s[i])

InvalidVersion == [valid |-> FALSE, major |-> 0, minor |-> 0, patch |-> 0,
                   prerelease |-> <<>>]

HasChar(s, c) == IndexOf(s, c) # 0

BeforeChar(s, c) ==
    IF HasChar(s, c) THEN SubSeq(s, 1, IndexOf(s, c) - 1) ELSE s

AfterChar(s, c) ==
    IF HasChar(s, c) THEN SubSeq(s, IndexOf(s, c) + 1, Len(s)) ELSE <<>>

\* The match groups of the FULL regular expression, checked and converted.
SemVerFields(nums, pres, builds) ==
    IF /\ Len(nums) = 3
       /\ \A i \in 1..Len(nums) : IsNumericIdentifier(nums[i])
       /\ \A i \in 1..Len(pres) : IsPrereleaseIdentifier(pres[i])
       /\ \A i \in 1..Len(builds) : IsBuildIdentifier(builds[i])
    THEN [valid |-> TRUE, major |-> ToNumber(nums[1]),
          minor |-> ToNumber(nums[2]), patch |-> ToNumber(nums[3]),
          prerelease |-> pres]
    ELSE InvalidVersion

\* MAJOR.MINOR.PATCH(-PRERELEASE)? and the build metadata after a '+'.
SemVerParts(core, hasBuild, build) ==
    SemVerFields(Split(BeforeChar(core, "-"), "."),
                 IF HasChar(core, "-") THEN Split(AfterChar(core, "-"), ".")
                 ELSE <<>>,
                 IF hasBuild THEN Split(build, ".") ELSE <<>>)

\* new SemVer(version): ^v?MAJOR.MINOR.PATCH(-PRERELEASE)?(\+BUILD)?$ ;
\* valid = FALSE stands for the TypeError "Invalid Version".
SemVerUnprefixed(s) ==
    SemVerParts(BeforeChar(s, "+"), HasChar(s, "+"), AfterChar(s, "+"))

SemVer(version) ==
    SemVerUnprefixed(IF version # <<>> /\ Head(version) = "v"
                     THEN Tail(version) ELSE version)

\* semver.valid(version): truthy exactly when the string parses.
SemverValid(version) == SemVer(version).valid

\* semver.major(version); only evaluated where SemverValid holds (it throws
\* otherwise).
SemverMajor(version) == SemVer(version).major

\* compareIdentifiers(a, b) of semver/internal/identifiers.js
CompareIdentifiers(a, b) ==
    IF AllDigits(a) /\ AllDigits(b)
    THEN (IF ToNumber(a) = ToNumber(b) THEN 0
          ELSE IF ToNumber(a) < ToNumber(b) THEN -1 ELSE 1)
    ELSE IF a = b THEN 0
    ELSE IF AllDigits(a) THEN -1
    ELSE IF AllDigits(b) THEN 1
    ELSE IF StrLess(a, b) THEN -1 ELSE 1

\* SemVer.comparePre
RECURSIVE ComparePreFrom(_, _, _)
ComparePreFrom(p, q, i) ==
    IF i > Len(p) /\ i > Len(q) THEN 0
    ELSE IF i > Len(q) THEN 1
    ELSE IF i > Len(p) THEN -1
    ELSE IF p[i] = q[i] THEN ComparePreFrom(p, q, i + 1)
    ELSE CompareIdentifiers(p[i], q[i])

ComparePre(p, q) ==
    IF p # <<>> /\ q = <<>> THEN -1
    ELSE IF p = <<>> /\ q # <<>> THEN 1
    ELSE IF p = <<>> /\ q = <<>> THEN 0
    ELSE ComparePreFrom(p, q, 1)

CompareNumber(x, y) == IF x = y THEN 0 ELSE IF x < y THEN -1 ELSE 1

\* SemVer.compare: compareMain || comparePre
CompareParsed(x, y) ==
    IF x.major # y.major THEN CompareNumber(x.major, y.major)
    ELSE IF x.minor # y.minor THEN CompareNumber(x.minor, y.minor)
    ELSE IF x.patch # y.patch THEN CompareNumber(x.patch, y.patch)
    ELSE ComparePre(x.prerelease, y.prerelease)

\* semver.compare(a, b) for two parseable strings
SemverCompare(a, b) == CompareParsed(SemVer(a), SemVer(b))

\* semver.gt(a, b)
SemverGt(a, b) == SemverCompare(a, b) > 0

(***************************************************************************)
(* lodash and the JavaScript built-ins the code calls.                     *)
(***************************************************************************)
\* _.trimEnd(url, '/'): every trailing '/' is removed.
RECURSIVE TrimEnd(_, _)
TrimEnd(s, c) ==
    IF s # <<>> /\ s[Len(s)] = c THEN TrimEnd(SubSeq(s, 1, Len(s) - 1), c)
    ELSE s

\* encodeURIComponent on the characters of the model: '@' and '/' are
\* percent-encoded, letters, digits, '-' and '.' are kept.
EncodeChar(c) ==
    IF c = "@" THEN <<"%", "4", "0">>
    ELSE IF c = "/" THEN <<"%", "2", "F">>
    ELSE <<c>>

EncodeURIComponent(s) == Concat([i \in 1..Len(s) |-> EncodeChar(s[i])])

\* String.prototype.replace(pattern, replacement) with a string pattern of
\* one character: only the first occurrence is replaced.
StringReplace(s, c, r) ==
    LET i == IndexOf(s, c)
    IN  IF i = 0 THEN s
        ELSE SubSeq(s, 1, i - 1) \o r \o SubSeq(s, i + 1, Len(s))

Range(seq) == {seq[i] : i \in 1..Len(seq)}

\* _.difference(array, values): the elements of array not in values, in the
\* order of array.
Difference(array, values) == SelectSeq(array, LAMBDA v : v \notin values)

\* Array.prototype.sort((a, b) => semver.compare(a, b)) on parseable strings:
\* a stable sort.
RECURSIVE InsertSorted(_, _)
InsertSorted(v, sorted) ==
    IF sorted = <<>> THEN <<v>>
    ELSE IF SemverCompare(v, sorted[Len(sorted)]) >= 0 THEN Append(sorted, v)
    ELSE Append(InsertSorted(v, SubSeq(sorted, 1, Len(sorted) - 1)),
                sorted[Len(sorted)])

\* Array.prototype.sort() without a comparator: by string order.
RECURSIVE InsertByString(_, _)
InsertByString(v, sorted) ==
    IF sorted = <<>> THEN <<v>>
    ELSE IF ~StrLess(v, sorted[Len(sorted)]) THEN Append(sorted, v)
    ELSE Append(InsertByString(v, SubSeq(sorted, 1, Len(sorted) - 1)),
                sorted[Len(sorted)])

RECURSIVE SortVersionsByString(_)
SortVersionsByString(list) ==
    IF list = <<>> THEN <<>>
    ELSE InsertByString(list[Len(list)],
                        SortVersionsByString(SubSeq(list, 1, Len(list) - 1)))

RECURSIVE SortVersions(_)
SortVersions(list) ==
    IF list = <<>> THEN <<>>
    ELSE InsertSorted(list[Len(list)],
                      SortVersions(SubSeq(list, 1, Len(list) - 1)))

\* The comparator is called on every element of an array of two or more, and
\* semver.compare throws on a string that does not parse.
SortThrows(list) == Len(list) >= 2 /\ \E v \in Range(list) : ~SemverValid(v)

Reorderings(list) ==
    {p \in [1..Len(list) -> Range(list)] : Range(p) = Range(list)}

(***************************************************************************)
(* The data of a run: version keys, registry documents, options.           *)
(***************************************************************************)
V100 == <<"1", ".", "0", ".", "0">>
V120 == <<"1", ".", "2", ".", "0">>
V123 == <<"1", ".", "2", ".", "3">>
V1100 == <<"1", ".", "1", "0", ".", "0">>
V200 == <<"2", ".", "0", ".", "0">>
V210 == <<"2", ".", "1", ".", "0">>
V210beta == <<"2", ".", "1", ".", "0", "-", "b", "e", "t", "a">>
\* A version key that is not a semantic version.
V10 == <<"1", ".", "0">>

KeyUniverse == {V120, V1100, V210, V210beta, V10}

TargetUniverse == {V1100, V210, V10}

\* The source documents of the major-filter example of the specification, in
\* two enumeration orders.
ExampleDocs == {<<V100, V120, V200, V210, V210beta>>,
                <<V210beta, V210, V200, V120, V100>>}

\* Object.keys of the source document's versions: distinct keys in the
\* document's enumeration order.
BoundedDocs ==
    {d \in UNION {[1..n -> KeyUniverse] : n \in 0..MaxKeys} :
        \A i, j \in 1..Len(d) : i # j => d[i] # d[j]}

\* The target registry: the package is absent, or present with some versions.
NoTarget == [exists |-> FALSE, versions |-> {}, latest |-> <<>>]

BoundedTargets ==
    {NoTarget} \cup
    {[exists |-> TRUE, versions |-> vs, latest |-> <<>>] :
        vs \in {x \in SUBSET TargetUniverse : Cardinality(x) <= MaxTargetKeys}}

\* new Date(0), the default of the option after
DefaultAfter == 0

\* A cutoff given by the caller, as a day count.
Cutoff == 2

\* sourcePackageInfo.data.time[version], read as new Date(...) reads it:
\* recorded = FALSE is a missing entry, valid = FALSE an Invalid Date.
PublishTime(version) ==
    IF version \in {V100, V120, V123}
    THEN [recorded |-> TRUE, valid |-> TRUE, ms |-> 1]
    ELSE IF version = V1100 THEN [recorded |-> TRUE, valid |-> TRUE, ms |-> 2]
    ELSE IF version \in {V200, V210}
    THEN [recorded |-> TRUE, valid |-> TRUE, ms |-> 3]
    ELSE IF version = V10 THEN [recorded |-> TRUE, valid |-> FALSE, ms |-> 0]
    ELSE [recorded |-> FALSE, valid |-> FALSE, ms |-> 0]

\* sourcePackageInfo.data.versions[version]
VersionDetails(packageName, version) ==
    [name |-> packageName, version |-> version,
     dist |-> [tarball |-> <<"a", "/">> \o version,
               integrity |-> <<"s", "-">> \o version,
               shasum |-> <<"c", "-">> \o version]]

ScopedName == <<"@", "s", "c", "o", "p", "e", "/", "n", "a", "m", "e">>
PlainName == <<"n", "a", "m", "e">>

SourceUrl == <<"s">>
TargetUrl == <<"t", "/">>

Token == <<"t", "o", "k", "e", "n">>

BaseOptions ==
    [from |-> SourceUrl, to |-> TargetUrl,
     fromToken |-> Token, fromUsername |-> <<>>, fromPassword |-> <<>>,
     toToken |-> <<>>, toUsername |-> <<"b", "o", "b">>,
     toPassword |-> <<"s", "e", "c">>,
     package |-> ScopedName, after |-> DefaultAfter,
     onlyLatestFromEachMajor |-> FALSE]

\* Both a token and a username for the target registry.
BadOptions == [BaseOptions EXCEPT !.toToken = Token]

MainOptions ==
    {[BaseOptions EXCEPT !.after = a, !.onlyLatestFromEachMajor = f] :
        a \in {DefaultAfter, Cutoff}, f \in BOOLEAN}
    \cup {BadOptions}

NameOptions ==
    {[BaseOptions EXCEPT !.from = u, !.to = w, !.package = n] :
        u \in {SourceUrl, <<"s", "/", "/">>, <<"t">>},
        w \in {TargetUrl, <<"t">>},
        n \in {ScopedName, PlainName}}

\* Every combination of a present or missing URL, token, username and
\* password, for each registry.
CredentialOptions ==
    {[BaseOptions EXCEPT !.from = fu, !.fromToken = ft, !.fromUsername = fn,
                         !.fromPassword = fp, !.to = tu, !.toToken = tt,
                         !.toUsername = tn, !.toPassword = tp] :
        fu \in {<<>>, SourceUrl}, ft \in {<<>>, Token},
        fn \in {<<>>, <<"a", "n", "n">>}, fp \in {<<>>, <<"p", "w">>},
        tu \in {<<>>, TargetUrl}, tt \in {<<>>, Token},
        tn \in {<<>>, <<"b", "o", "b">>}, tp \in {<<>>, <<"s", "e", "c">>}}

NameDocs == {<<V123>>, <<V1100, V123>>}

(***************************************************************************)
(* RegistryConfig                                                          *)
(***************************************************************************)
\* Line 202 testing the username only: a token with a password is accepted.
RegistryConfigTokenWithPassword(url, token, username, password) ==
    [ok |-> /\ url # <<>>
            /\ ~(token # <<>> /\ username # <<>>)
            /\ (token = <<>> => username # <<>> /\ password # <<>>),
     url |-> TrimEnd(url, "/"),
     token |-> token, username |-> username, password |-> password]

\* The constructor: ok = FALSE stands for the Error it throws.
RegistryConfig(url, token, username, password) ==
    [ok |-> /\ url # <<>>
            /\ ~(token # <<>> /\ (username # <<>> \/ password # <<>>))
            /\ (token = <<>> => username # <<>> /\ password # <<>>),
     url |-> TrimEnd(url, "/"),
     token |-> token, username |-> username, password |-> password]

NoRegistry == RegistryConfig(<<>>, <<>>, <<>>, <<>>)

GetPackageUrl(registry, packageName) ==
    registry.url \o <<"/">> \o EncodeURIComponent(packageName)

(***************************************************************************)
(* State                                                                   *)
(***************************************************************************)
VARIABLES
    opts,                  \* the options of copyPackageVersions
    sourceVersions,        \* source registry: the version keys of the package
    target,                \* target registry: the package as stored there
    run,                   \* number of the current invocation
    pc,                    \* where the invocation stands
    sourceRegistry,        \* the RegistryConfig objects
    targetRegistry,
    sourcePackageInfo,     \* version keys of the fetched source document
    targetPackageInfo,     \* fetched target document, or null
    packageVersionsToCopy,
    idx,                   \* position of the for loop in packageVersionsToCopy
    requests,              \* the HTTP requests of this invocation, in order
    console,               \* the lines of console.log, as <<event, version>>
    error                  \* what the invocation threw

vars == <<opts, sourceVersions, target, run, pc, sourceRegistry,
          targetRegistry, sourcePackageInfo, targetPackageInfo,
          packageVersionsToCopy, idx, requests, console, error>>

NoPayload == [id |-> <<>>, name |-> <<>>, latest |-> <<>>, version |-> <<>>,
              tarball |-> <<>>, integrity |-> <<>>, shasum |-> <<>>,
              attachment |-> <<>>]

Request(method, kind, url, version, payload) ==
    [method |-> method, kind |-> kind, url |-> url, version |-> version,
     payload |-> payload, status |-> "pending"]

\* The response of the request in flight (the last one issued).
Answered(reqs, status) == [reqs EXCEPT ![Len(reqs)].status = status]

NullInfo == [present |-> FALSE, versions |-> {}]

InitWith(options, docs, targets) ==
    /\ opts \in options
    /\ sourceVersions \in docs
    /\ target \in targets
    /\ run = 1
    /\ pc = "start"
    /\ sourceRegistry = NoRegistry
    /\ targetRegistry = NoRegistry
    /\ sourcePackageInfo = <<>>
    /\ targetPackageInfo = NullInfo
    /\ packageVersionsToCopy = <<>>
    /\ idx = 0
    /\ requests = <<>>
    /\ console = <<>>
    /\ error = "none"

Init == InitWith(MainOptions, BoundedDocs \cup ExampleDocs, BoundedTargets)

InitNames == InitWith(NameOptions, NameDocs, {NoTarget})

InitCredentials == InitWith(CredentialOptions, NameDocs, {NoTarget})

(***************************************************************************)
(* The synchronous code of copyPackageVersions                             *)
(***************************************************************************)
\* One step of the reduce of lines 287-293: acc maps a major number to a
\* version key.
ReduceStep(acc, version, major) ==
    IF major \notin DOMAIN acc \/ SemverGt(version, acc[major])
    THEN [m \in DOMAIN acc \cup {major} |->
             IF m = major THEN version ELSE acc[m]]
    ELSE acc

\* The reduce of lines 285-293 over the parseable source keys, in their
\* enumeration order.
RECURSIVE LatestMajorVersions(_)
LatestMajorVersions(keys) ==
    IF keys = <<>> THEN [m \in {} |-> <<>>]
    ELSE ReduceStep(LatestMajorVersions(SubSeq(keys, 1, Len(keys) - 1)),
                    keys[Len(keys)], SemverMajor(keys[Len(keys)]))

IsLatestOfMajor(latest, version, major) ==
    major \in DOMAIN latest /\ latest[major] = version

KeepLatest(candidates, latest) ==
    SelectSeq(candidates,
              LAMBDA v : IsLatestOfMajor(latest, v, SemverMajor(v)))

\* The latest of each major taken among the candidates only.
MajorFilterAmongCandidates(candidates, sourceKeys) ==
    KeepLatest(candidates,
               LatestMajorVersions(SelectSeq(candidates, SemverValid)))

\* Line 294: the candidates that are the recorded latest of their major.
MajorFilter(candidates, sourceKeys) ==
    KeepLatest(candidates,
               LatestMajorVersions(SelectSeq(sourceKeys, SemverValid)))

\* semver.major(version) at line 294 throws on a candidate that does not parse.
MajorFilterThrows(candidates) == \E v \in Range(candidates) : ~SemverValid(v)

IsBefore(t, after) == t.recorded /\ t.valid /\ t.ms < after

\* <= in place of <
PublishedBeforeOrAt(version, after) ==
    IsBefore(PublishTime(version), after + 1)

\* Line 308: time[version] && new Date(time[version]) < after
PublishedBefore(version, after) == IsBefore(PublishTime(version), after)

\* Every '/' and '@' removed, nothing put in their place.
TarballNameStripped(details) ==
    SelectSeq(details.name, LAMBDA c : c \notin {"/", "@"})
    \o <<"-">> \o details.version \o <<".", "t", "g", "z">>

\* Line 326
TarballName(details) ==
    StringReplace(StringReplace(details.name, "/", <<"-">>), "@", <<>>)
    \o <<"-">> \o details.version \o <<".", "t", "g", "z">>

\* A payload whose dist-tags name no latest version.
PayloadOfWithoutLatestTag(details, tarballName, packageUrl) ==
    [id |-> details.name, name |-> details.name,
     latest |-> <<>>, version |-> details.version,
     tarball |-> packageUrl \o <<"/", "-", "/">> \o tarballName,
     integrity |-> details.dist.integrity, shasum |-> details.dist.shasum,
     attachment |-> tarballName]

\* Lines 329-350 (without the tarball name and the package URL)
PayloadOf(details, tarballName, packageUrl) ==
    [id |-> details.name, name |-> details.name,
     latest |-> details.version, version |-> details.version,
     tarball |-> packageUrl \o <<"/", "-", "/">> \o tarballName,
     integrity |-> details.dist.integrity, shasum |-> details.dist.shasum,
     attachment |-> tarballName]

\* Lines 329-350
Payload(details, registry) ==
    PayloadOf(details, TarballName(details),
              GetPackageUrl(registry, details.name))

\* The registry whose package URL the payload's dist.tarball is built from
\* (line 338).
TarballRegistry == sourceRegistry

\* break in place of continue: a skipped version ends the loop.
NextTransferOrEnd(list, i, after) ==
    IF i <= Len(list) /\ PublishedBefore(list[i], after) THEN Len(list) + 1
    ELSE i

\* The position of the first version from i on that line 308 does not skip;
\* Len(list) + 1 when there is none.
RECURSIVE NextTransfer(_, _, _)
NextTransfer(list, i, after) ==
    IF i > Len(list) THEN i
    ELSE IF PublishedBefore(list[i], after) THEN NextTransfer(list, i + 1, after)
    ELSE i

SkipLines(list, i, j) == [k \in 1..(j - i) |-> <<"skipping", list[i + k - 1]>>]

Abort(list, reqs, lines, thrown) ==
    /\ packageVersionsToCopy' = list
    /\ pc' = "failed"
    /\ error' = thrown
    /\ requests' = reqs
    /\ console' = lines
    /\ idx' = 0

\* The loop stands at position j: past the end (line 363), or at a version to
\* download (line 315).
LoopAt(list, j, reqs, lines) ==
    /\ idx' = j
    /\ error' = "none"
    /\ IF j > Len(list)
       THEN /\ pc' = "done"
            /\ requests' = reqs
            /\ console' = Append(lines, <<"finished", <<>>>>)
       ELSE /\ pc' = "awaitArchive"
            /\ requests' = Append(reqs,
                 Request("GET", "archive",
                         VersionDetails(opts.package, list[j]).dist.tarball,
                         list[j], NoPayload))
            /\ console' = Append(lines, <<"downloading", list[j]>>)

LoopTo(list, i, j, reqs, lines) ==
    LoopAt(list, j, reqs, lines \o SkipLines(list, i, j))

\* The for loop (lines 306-361) from position i up to its next await or its
\* end: skipped versions are reported, the next one is downloaded.
Loop(list, i, reqs, lines) ==
    LoopTo(list, i, NextTransfer(list, i, opts.after), reqs, lines)

\* Lines 302-306
PlanSorted(sorted, reqs, lines) ==
    /\ packageVersionsToCopy' = sorted
    /\ Loop(sorted, 1, reqs, Append(lines, <<"list", <<>>>>))

\* Lines 297-302
PlanFiltered(filtered, reqs, lines) ==
    IF filtered = <<>>
    THEN /\ packageVersionsToCopy' = filtered
         /\ pc' = "done"
         /\ error' = "none"
         /\ requests' = reqs
         /\ console' = Append(lines, <<"nothing", <<>>>>)
         /\ idx' = 0
    ELSE IF SortThrows(filtered)
    THEN \* the comparator throws: the array is left in an
         \* implementation-defined order
         \E list \in Reorderings(filtered) :
             Abort(list, reqs, lines, "TypeError")
    ELSE PlanSorted(SortVersions(filtered), reqs, lines)

\* Lines 284-295
PlanCandidates(candidates, reqs, lines) ==
    IF opts.onlyLatestFromEachMajor
    THEN IF MajorFilterThrows(candidates)
         THEN Abort(candidates, reqs, lines, "TypeError")
         ELSE PlanFiltered(MajorFilter(candidates, sourcePackageInfo),
                           reqs, lines)
    ELSE PlanFiltered(candidates, reqs, lines)

\* The target's keys are not subtracted.
PlanAllSourceKeys(targetKeys, reqs, lines) ==
    PlanCandidates(sourcePackageInfo, reqs, lines)

\* Lines 283-306, once the target document is known.
Plan(targetKeys, reqs, lines) ==
    PlanCandidates(Difference(sourcePackageInfo, targetKeys), reqs, lines)

(***************************************************************************)
(* Actions                                                                 *)
(***************************************************************************)
\* Lines 260-267: both RegistryConfig objects are constructed, then the
\* source document is requested.
Start ==
    /\ pc = "start"
    /\ LET s == RegistryConfig(opts.from, opts.fromToken, opts.fromUsername,
                               opts.fromPassword)
           t == RegistryConfig(opts.to, opts.toToken, opts.toUsername,
                               opts.toPassword)
       IN  IF s.ok /\ t.ok
           THEN /\ sourceRegistry' = s
                /\ targetRegistry' = t
                /\ requests' = Append(requests,
                     Request("GET", "sourceInfo", GetPackageUrl(s, opts.package),
                             <<>>, NoPayload))
                /\ pc' = "awaitSourceInfo"
                /\ error' = "none"
           ELSE /\ sourceRegistry' = IF s.ok THEN s ELSE NoRegistry
                /\ targetRegistry' = NoRegistry
                /\ requests' = requests
                /\ pc' = "failed"
                /\ error' = "Error"
    /\ console' = Append(console, <<"copying", <<>>>>)
    /\ UNCHANGED <<opts, sourceVersions, target, run, sourcePackageInfo,
                   targetPackageInfo, packageVersionsToCopy, idx>>

\* Line 265 resolves; lines 269-274 request the target document.
SourceInfoOk ==
    /\ pc = "awaitSourceInfo"
    /\ sourcePackageInfo' = sourceVersions
    /\ requests' = Append(Answered(requests, "ok"),
         Request("GET", "targetInfo",
                 GetPackageUrl(targetRegistry, opts.package), <<>>, NoPayload))
    /\ pc' = "awaitTargetInfo"
    /\ UNCHANGED <<opts, sourceVersions, target, run, sourceRegistry,
                   targetRegistry, targetPackageInfo, packageVersionsToCopy,
                   idx, console, error>>

\* A 404 of line 265 taken for a package without versions: the invocation
\* goes on to the target document.
SourceInfoNotFoundAsEmpty ==
    /\ pc = "awaitSourceInfo"
    /\ \E status \in {"404", "500", "no response"} :
          IF status = "404"
          THEN /\ requests' = Append(Answered(requests, status),
                    Request("GET", "targetInfo",
                            GetPackageUrl(targetRegistry, opts.package),
                            <<>>, NoPayload))
               /\ pc' = "awaitTargetInfo"
               /\ error' = error
          ELSE /\ requests' = Answered(requests, status)
               /\ pc' = "failed"
               /\ error' = "AxiosError"
    /\ UNCHANGED <<opts, sourceVersions, target, run, sourceRegistry,
                   targetRegistry, sourcePackageInfo, targetPackageInfo,
                   packageVersionsToCopy, idx, console>>

\* Line 265 rejects (a 404 included): nothing catches it.
SourceInfoFail ==
    /\ pc = "awaitSourceInfo"
    /\ \E status \in {"404", "500", "no response"} :
          requests' = Answered(requests, status)
    /\ pc' = "failed"
    /\ error' = "AxiosError"
    /\ UNCHANGED <<opts, sourceVersions, target, run, sourceRegistry,
                   targetRegistry, sourcePackageInfo, targetPackageInfo,
                   packageVersionsToCopy, idx, console>>

\* Line 272 resolves: the package exists on the target.
TargetInfoOk ==
    /\ pc = "awaitTargetInfo"
    /\ target.exists
    /\ targetPackageInfo' = [present |-> TRUE, versions |-> target.versions]
    /\ Plan(target.versions, Answered(requests, "ok"), console)
    /\ UNCHANGED <<opts, sourceVersions, target, run, sourceRegistry,
                   targetRegistry, sourcePackageInfo>>

\* Line 272 rejects with status 404: lines 275-280 keep targetPackageInfo
\* null, and line 283 reads [] for its versions.
TargetInfoNotFound ==
    /\ pc = "awaitTargetInfo"
    /\ ~target.exists
    /\ targetPackageInfo' = NullInfo
    /\ Plan({}, Answered(requests, "404"),
            Append(console, <<"absent", <<>>>>))
    /\ UNCHANGED <<opts, sourceVersions, target, run, sourceRegistry,
                   targetRegistry, sourcePackageInfo>>

\* A catch that swallows every failure of line 272.
TargetInfoFailIgnored ==
    /\ pc = "awaitTargetInfo"
    /\ targetPackageInfo' = NullInfo
    /\ \E status \in {"500", "no response"} :
          Plan({}, Answered(requests, status),
               Append(console, <<"absent", <<>>>>))
    /\ UNCHANGED <<opts, sourceVersions, target, run, sourceRegistry,
                   targetRegistry, sourcePackageInfo>>

\* Line 272 rejects otherwise: with another status line 277 rethrows; with no
\* response at all err.response is undefined and line 276 throws a TypeError.
TargetInfoFail ==
    /\ pc = "awaitTargetInfo"
    /\ \E status \in {"500", "no response"} :
          /\ requests' = Answered(requests, status)
          /\ error' = IF status = "no response" THEN "TypeError"
                      ELSE "AxiosError"
    /\ pc' = "failed"
    /\ UNCHANGED <<opts, sourceVersions, target, run, sourceRegistry,
                   targetRegistry, sourcePackageInfo, targetPackageInfo,
                   packageVersionsToCopy, idx, console>>

\* Line 315 without its await: the PUT is issued while the archive GET is
\* still in flight.
ArchiveNotAwaited ==
    /\ pc = "awaitArchive"
    /\ LET packageVersion == packageVersionsToCopy[idx]
           versionDetails == VersionDetails(opts.package, packageVersion)
       IN  /\ requests' = Append(requests,
                Request("PUT", "publish",
                        GetPackageUrl(targetRegistry, opts.package),
                        packageVersion,
                        Payload(versionDetails, TarballRegistry)))
           /\ console' = console \o <<<<"downloaded", packageVersion>>,
                                      <<"uploading", packageVersion>>>>
    /\ pc' = "awaitPublish"
    /\ UNCHANGED <<opts, sourceVersions, target, run, sourceRegistry,
                   targetRegistry, sourcePackageInfo, targetPackageInfo,
                   packageVersionsToCopy, idx, error>>

\* Line 315 resolves; lines 319-358 build the payload and send it.
ArchiveOk ==
    /\ pc = "awaitArchive"
    /\ LET packageVersion == packageVersionsToCopy[idx]
           versionDetails == VersionDetails(opts.package, packageVersion)
       IN  /\ requests' = Append(Answered(requests, "ok"),
                Request("PUT", "publish",
                        GetPackageUrl(targetRegistry, opts.package),
                        packageVersion,
                        Payload(versionDetails, TarballRegistry)))
           /\ console' = console \o <<<<"downloaded", packageVersion>>,
                                      <<"uploading", packageVersion>>>>
    /\ pc' = "awaitPublish"
    /\ UNCHANGED <<opts, sourceVersions, target, run, sourceRegistry,
                   targetRegistry, sourcePackageInfo, targetPackageInfo,
                   packageVersionsToCopy, idx, error>>

\* A failed download is passed over and the loop goes on.
ArchiveFailSkipped ==
    /\ pc = "awaitArchive"
    /\ Loop(packageVersionsToCopy, idx + 1, Answered(requests, "failed"),
            console)
    /\ UNCHANGED <<opts, sourceVersions, target, run, sourceRegistry,
                   targetRegistry, sourcePackageInfo, targetPackageInfo,
                   packageVersionsToCopy>>

\* Line 315 rejects.
ArchiveFail ==
    /\ pc = "awaitArchive"
    /\ requests' = Answered(requests, "failed")
    /\ pc' = "failed"
    /\ error' = "AxiosError"
    /\ UNCHANGED <<opts, sourceVersions, target, run, sourceRegistry,
                   targetRegistry, sourcePackageInfo, targetPackageInfo,
                   packageVersionsToCopy, idx, console>>

\* Line 353 resolves: the target registry has stored the version of the
\* payload and applied its dist-tags; the loop goes on.
PublishOk ==
    /\ pc = "awaitPublish"
    /\ LET payload == requests[Len(requests)].payload
       IN  target' = [exists |-> TRUE,
                      versions |-> target.versions \cup {payload.version},
                      latest |-> payload.latest]
    /\ Loop(packageVersionsToCopy, idx + 1, Answered(requests, "ok"),
            Append(console, <<"uploaded", packageVersionsToCopy[idx]>>))
    /\ UNCHANGED <<opts, sourceVersions, run, sourceRegistry, targetRegistry,
                   sourcePackageInfo, targetPackageInfo, packageVersionsToCopy>>

\* Line 353 rejects.
PublishFail ==
    /\ pc = "awaitPublish"
    /\ requests' = Answered(requests, "failed")
    /\ pc' = "failed"
    /\ error' = "AxiosError"
    /\ UNCHANGED <<opts, sourceVersions, target, run, sourceRegistry,
                   targetRegistry, sourcePackageInfo, targetPackageInfo,
                   packageVersionsToCopy, idx, console>>

\* The caller runs copyPackageVersions again, with the same options, after an
\* invocation that returned normally; the registries keep their contents.
RunAgain ==
    /\ pc = "done"
    /\ run < MaxRuns
    /\ run' = run + 1
    /\ pc' = "start"
    /\ sourceRegistry' = NoRegistry
    /\ targetRegistry' = NoRegistry
    /\ sourcePackageInfo' = <<>>
    /\ targetPackageInfo' = NullInfo
    /\ packageVersionsToCopy' = <<>>
    /\ idx' = 0
    /\ requests' = <<>>
    /\ console' = <<>>
    /\ error' = "none"
    /\ UNCHANGED <<opts, sourceVersions, target>>

Next ==
    \/ Start
    \/ SourceInfoOk
    \/ SourceInfoFail
    \/ TargetInfoOk
    \/ TargetInfoNotFound
    \/ TargetInfoFail
    \/ ArchiveOk
    \/ ArchiveFail
    \/ PublishOk
    \/ PublishFail
    \/ RunAgain

Spec == Init /\ [][Next]_vars

SpecCredentials == InitCredentials /\ [][Next]_vars

SpecNames == InitNames /\ [][Next]_vars

(***************************************************************************)
(* Vocabulary of the properties                                            *)
(***************************************************************************)
\* The target document has been received (or found absent), so lines 283-306
\* have run.
TargetAnswered ==
    Len(requests) >= 2 /\ requests[2].status \in {"ok", "404"}

\* S and T: the version keys of the two documents the invocation fetched.
SourceKeys == Range(sourcePackageInfo)
TargetKeys == targetPackageInfo.versions

WorkSet == Range(packageVersionsToCopy)

RequestsOf(kind) == SelectSeq(requests, LAMBDA r : r.kind = kind)

Transfers == {i \in 1..Len(requests) :
                 requests[i].kind \in {"archive", "publish"}}

\* How many requests of the kind were issued for the version.
Issued(kind, version) ==
    Cardinality({i \in 1..Len(requests) :
                    requests[i].kind = kind /\ requests[i].version = version})

NoFilters ==
    ~opts.onlyLatestFromEachMajor /\ opts.after = DefaultAfter

\* C1: with no filters, the versions selected for copying are exactly the
\* source keys that are not target keys, each once, also for an absent target.
C1_CandidatesAreSourceMinusTarget ==
    (TargetAnswered /\ NoFilters) =>
        /\ WorkSet = SourceKeys \ TargetKeys
        /\ Len(packageVersionsToCopy) = Cardinality(WorkSet)

C1_Witness ==
    /\ TargetAnswered
    /\ NoFilters
    /\ pc = "done"
    /\ SourceKeys \cap TargetKeys # {}
    /\ Cardinality(SourceKeys \ TargetKeys) >= 2
    /\ Len(RequestsOf("publish")) >= 2

\* C2: the dist.tarball of every PUT payload is the target registry's package
\* URL, then '/-/', then the archive filename, whenever the two registries
\* have different base URLs.
C2_TarballAtTargetRegistry ==
    \A i \in 1..Len(requests) :
        (requests[i].kind = "publish"
         /\ sourceRegistry.url # targetRegistry.url) =>
            requests[i].payload.tarball =
                GetPackageUrl(targetRegistry, opts.package)
                \o <<"/", "-", "/">> \o requests[i].payload.attachment

\* The name with every '/' and every '@' removed.
Stripped(name) == SelectSeq(name, LAMBDA c : c \notin {"/", "@"})

\* The name with its first '/' turned into '-' and its first '@' removed.
Dashed(name) ==
    Concat([k \in 1..Len(name) |->
               IF k = IndexOf(name, "@") THEN <<>>
               ELSE IF k = IndexOf(name, "/") THEN <<"-">>
               ELSE <<name[k]>>])

Tgz == <<".", "t", "g", "z">>

\* C3 as claimed: the archive filename is the package name without its '/'
\* and '@' characters, then '-', the version and '.tgz'
\* ('scopename-1.2.3.tgz' for '@scope/name' 1.2.3).
C3_FilenameStripsSeparators ==
    \A i \in 1..Len(requests) :
        requests[i].kind = "publish" =>
            requests[i].payload.attachment =
                Stripped(opts.package) \o <<"-">> \o requests[i].version \o Tgz

\* C3 as amended: the archive filename is the package name with its first '/'
\* replaced by '-' and its first '@' removed, then '-', the version and
\* '.tgz': 'scope-name-1.2.3.tgz' for '@scope/name' 1.2.3.
C3_FilenameDashesScope ==
    \A i \in 1..Len(requests) :
        requests[i].kind = "publish" =>
            /\ requests[i].payload.attachment =
                 Dashed(opts.package) \o <<"-">> \o requests[i].version \o Tgz
            /\ (opts.package = ScopedName /\ requests[i].version = V123) =>
                 requests[i].payload.attachment =
                     <<"s", "c", "o", "p", "e", "-", "n", "a", "m", "e", "-",
                       "1", ".", "2", ".", "3", ".", "t", "g", "z">>

C3_Witness ==
    \E i \in 1..Len(requests) :
        /\ requests[i].kind = "publish"
        /\ requests[i].status = "ok"
        /\ opts.package = ScopedName
        /\ requests[i].version = V123

\* a is not after b in semantic-version precedence.
NotAfter(a, b) ==
    SemverValid(a) /\ SemverValid(b) /\ SemverCompare(a, b) <= 0

\* C4: in one invocation the archive GETs and the PUTs are issued in
\* non-decreasing semantic-version precedence (numeric per component), and so
\* is the work list the loop walks, whatever the order of the source keys.
C4_AscendingSemverOrder ==
    /\ \A i, j \in Transfers :
          (i < j /\ requests[i].version # requests[j].version) =>
              NotAfter(requests[i].version, requests[j].version)
    /\ (pc \in {"awaitArchive", "awaitPublish", "done"} \/ idx > 0) =>
          \A i, j \in 1..Len(packageVersionsToCopy) :
              i < j => NotAfter(packageVersionsToCopy[i],
                                packageVersionsToCopy[j])

\* 1.2.0 is published before 1.10.0 although the source lists 1.10.0 first
\* and "1.10.0" is the smaller string.
C4_Witness ==
    /\ IndexOf(sourcePackageInfo, V1100) # 0
    /\ IndexOf(sourcePackageInfo, V1100) < IndexOf(sourcePackageInfo, V120)
    /\ StrLess(V1100, V120)
    /\ \E i, j \in 1..Len(requests) :
          /\ i < j
          /\ requests[i].kind = "publish" /\ requests[i].version = V120
          /\ requests[j].kind = "publish" /\ requests[j].version = V1100

\* v is the highest, by semantic-version precedence, of the keys with its
\* major number.
IsHighestOfMajor(v, keys) ==
    /\ SemverValid(v)
    /\ \A w \in keys :
          (SemverValid(w) /\ SemverMajor(w) = SemverMajor(v)) =>
              SemverCompare(w, v) <= 0

HighestCandidates ==
    {v \in SourceKeys \ TargetKeys : IsHighestOfMajor(v, SourceKeys)}

\* C5: with onlyLatestFromEachMajor, the work list holds exactly the
\* candidates (source keys missing from the target) that are the highest of
\* their major among all source keys; for the source {1.0.0, 1.2.0, 2.0.0,
\* 2.1.0, 2.1.0-beta} and an empty target it is {1.2.0, 2.1.0}.
C5_WorkListIsHighestOfEachMajor ==
    (TargetAnswered /\ opts.onlyLatestFromEachMajor) =>
        /\ WorkSet = HighestCandidates
        /\ (sourcePackageInfo \in ExampleDocs /\ TargetKeys = {}) =>
              WorkSet = {V120, V210}

\* What holds of the major filter as long as every candidate parses (line 294
\* does not throw).
MajorFilterWhenCandidatesParse ==
    (TargetAnswered /\ opts.onlyLatestFromEachMajor
     /\ \A v \in SourceKeys \ TargetKeys : SemverValid(v)) =>
        /\ WorkSet = HighestCandidates
        /\ (sourcePackageInfo \in ExampleDocs /\ TargetKeys = {}) =>
              WorkSet = {V120, V210}

\* The source document records a publish time for v that is before after.
RecordedEarlier(v) ==
    /\ PublishTime(v).recorded
    /\ PublishTime(v).valid
    /\ ~(PublishTime(v).ms >= opts.after)

Reported(event, version) ==
    \E i \in 1..Len(console) : console[i] = <<event, version>>

\* C6: a work-list version the loop has reached is skipped (no archive GET,
\* no PUT) exactly when its recorded publish time is strictly before after;
\* one without a time, or with a time at or after the cutoff, is downloaded;
\* and a run that returns has walked the whole work list, skips or not.
C6_SkippedIffPublishedBeforeAfter ==
    /\ \A k \in 1..Len(packageVersionsToCopy) :
          k <= idx =>
              /\ Issued("archive", packageVersionsToCopy[k]) = 0
                   <=> RecordedEarlier(packageVersionsToCopy[k])
              /\ RecordedEarlier(packageVersionsToCopy[k]) =>
                   /\ Issued("publish", packageVersionsToCopy[k]) = 0
                   /\ Reported("skipping", packageVersionsToCopy[k])
    /\ (pc = "done" /\ packageVersionsToCopy # <<>>) =>
          idx = Len(packageVersionsToCopy) + 1

\* A version is skipped, and a later one whose time equals the cutoff is
\* published.
C6_Witness ==
    /\ pc = "done"
    /\ \E k, m \in 1..Len(packageVersionsToCopy) :
          /\ k < m
          /\ RecordedEarlier(packageVersionsToCopy[k])
          /\ PublishTime(packageVersionsToCopy[m]).ms = opts.after
          /\ Issued("publish", packageVersionsToCopy[m]) = 1

\* C7 as claimed: an invocation that follows one that returned normally
\* computes an empty work list and issues no archive GET and no PUT, under
\* every option setting.
C7_SecondRunWorkListEmpty ==
    (run >= 2 /\ TargetAnswered) =>
        packageVersionsToCopy = <<>> /\ Transfers = {}

\* C7 as amended: such an invocation issues no archive GET and no PUT and
\* returns normally; its work list holds only versions whose recorded publish
\* time is before after, which the recency filter skips again.
C7_SecondRunTransfersNothing ==
    run >= 2 =>
        /\ Transfers = {}
        /\ TargetAnswered =>
              /\ pc = "done"
              /\ \A v \in WorkSet :
                    RecordedEarlier(v) /\ Reported("skipping", v)

C7_Witness ==
    /\ run = 2
    /\ TargetAnswered
    /\ pc = "done"
    /\ opts.onlyLatestFromEachMajor
    /\ target.latest # <<>>
    /\ packageVersionsToCopy # <<>>

\* C8: a 404 for the target document leaves the target with no versions and
\* the run goes on (with no filters every source key is a candidate); any
\* other failure of that GET ends the run in an error before any archive GET
\* or PUT.
C8_TargetNotFoundIsEmptyOtherFailuresAbort ==
    Len(requests) >= 2 =>
        /\ requests[2].status = "404" =>
              /\ targetPackageInfo = NullInfo
              /\ NoFilters =>
                    /\ WorkSet = SourceKeys
                    /\ (error # "AxiosError" \/ Len(requests) > 2)
        /\ requests[2].status \in {"500", "no response"} =>
              /\ pc = "failed"
              /\ error # "none"
              /\ Len(requests) = 2
              /\ packageVersionsToCopy = <<>>

C8_Witness ==
    /\ Len(requests) >= 2
    /\ requests[2].status = "404"
    /\ NoFilters
    /\ pc = "done"
    /\ Len(sourcePackageInfo) >= 2
    /\ Len(RequestsOf("publish")) = Len(sourcePackageInfo)

\* C9: a failed archive GET or PUT is the last request of the run: the run
\* ends in an error without reporting completion; every version published
\* before stays on the target, and no request other than GET and PUT is made.
C9_FailureAbortsWithoutRollback ==
    /\ \A i \in Transfers :
          requests[i].status = "failed" =>
              /\ i = Len(requests)
              /\ pc = "failed"
              /\ error = "AxiosError"
              /\ ~Reported("finished", <<>>)
    /\ \A i \in 1..Len(requests) :
          /\ requests[i].method \in {"GET", "PUT"}
          /\ (requests[i].kind = "publish" /\ requests[i].status = "ok") =>
                requests[i].payload.version \in target.versions

\* A PUT fails after an earlier version was published and with a later one
\* still to go.
C9_Witness ==
    /\ pc = "failed"
    /\ Len(requests) > 0
    /\ requests[Len(requests)].kind = "publish"
    /\ requests[Len(requests)].status = "failed"
    /\ idx < Len(packageVersionsToCopy)
    /\ \E i \in 1..Len(requests) :
          /\ requests[i].kind = "publish"
          /\ requests[i].status = "ok"
          /\ requests[i].payload.version \in target.versions

\* The versions a run has to transfer: in the source, not in the target
\* document it fetched, kept by the major filter and not skipped for their
\* publish time.
Expected ==
    {v \in SourceKeys \ TargetKeys :
        /\ opts.onlyLatestFromEachMajor => IsHighestOfMajor(v, SourceKeys)
        /\ ~RecordedEarlier(v)}

\* C10: a run that returns normally has issued exactly one archive GET and
\* one PUT for each version it has to transfer and none for any other
\* version, in particular none for a version of the target document.
C10_ExactlyOneTransferPerVersion ==
    pc = "done" =>
        \A v \in SourceKeys \cup TargetKeys
                 \cup {requests[i].version : i \in Transfers} :
            /\ Issued("archive", v) = (IF v \in Expected THEN 1 ELSE 0)
            /\ Issued("publish", v) = (IF v \in Expected THEN 1 ELSE 0)

C10_Witness ==
    /\ pc = "done"
    /\ opts.onlyLatestFromEachMajor
    /\ opts.after # DefaultAfter
    /\ Expected # {}
    /\ \E v \in SourceKeys \ TargetKeys : RecordedEarlier(v)
    /\ \E v \in SourceKeys \ TargetKeys : ~IsHighestOfMajor(v, SourceKeys)
    /\ SourceKeys \cap TargetKeys # {}

\* A URL and exactly one credential mode: a token alone, or a username and a
\* password without a token.
ValidEndpoint(url, token, username, password) ==
    /\ url # <<>>
    /\ \/ token # <<>> /\ username = <<>> /\ password = <<>>
       \/ token = <<>> /\ username # <<>> /\ password # <<>>

SourceEndpointValid ==
    ValidEndpoint(opts.from, opts.fromToken, opts.fromUsername,
                  opts.fromPassword)

TargetEndpointValid ==
    ValidEndpoint(opts.to, opts.toToken, opts.toUsername, opts.toPassword)

\* C11: a RegistryConfig is constructed exactly when its URL is not empty and
\* one credential mode is given; when either construction throws, the run
\* ends in an error without any HTTP request, and otherwise the source
\* document is requested.
C11_ConstructionValidatesCredentials ==
    pc # "start" =>
        /\ sourceRegistry.ok <=> SourceEndpointValid
        /\ targetRegistry.ok <=> (SourceEndpointValid /\ TargetEndpointValid)
        /\ (SourceEndpointValid /\ TargetEndpointValid) =>
              /\ requests # <<>>
              /\ requests[1].kind = "sourceInfo"
              /\ error # "Error"
        /\ ~(SourceEndpointValid /\ TargetEndpointValid) =>
              /\ pc = "failed"
              /\ error = "Error"
              /\ requests = <<>>

\* The source registry is given properly, the target a token together with a
\* password: the run ends before any request.
C11_Witness ==
    /\ pc = "failed"
    /\ requests = <<>>
    /\ SourceEndpointValid
    /\ opts.toToken # <<>>
    /\ opts.toUsername = <<>>
    /\ opts.toPassword # <<>>

ParseableKeys == SelectSeq(sourcePackageInfo, SemverValid)

\* The work list of the same invocation had the source document held no key
\* that is not a semantic version.
WorkListWithoutNonSemver ==
    SortVersions(MajorFilter(Difference(ParseableKeys, TargetKeys),
                             ParseableKeys))

\* C12: with onlyLatestFromEachMajor, a source key that is not a semantic
\* version is never selected and never transferred, and the run goes on with
\* the work list it would have without that key, without an error from the
\* filter, also when that key is missing from the target.
C12_NonSemverKeysAreExcluded ==
    (TargetAnswered /\ opts.onlyLatestFromEachMajor) =>
        /\ error # "TypeError"
        /\ packageVersionsToCopy = WorkListWithoutNonSemver
        /\ \A i \in Transfers : SemverValid(requests[i].version)

\* What holds of non-semver keys as long as the target already holds each of
\* them (none is a candidate).
NonSemverKeysExcludedWhenOnTarget ==
    (TargetAnswered /\ opts.onlyLatestFromEachMajor
     /\ \A v \in SourceKeys \ TargetKeys : SemverValid(v)) =>
        /\ error # "TypeError"
        /\ packageVersionsToCopy = WorkListWithoutNonSemver
        /\ \A i \in Transfers : SemverValid(requests[i].version)

\* A run under the flag whose source holds a non-semver key the target holds
\* too.
NonSemverKeyOnTargetReached ==
    /\ TargetAnswered
    /\ opts.onlyLatestFromEachMajor
    /\ V10 \in SourceKeys \cap TargetKeys
    /\ packageVersionsToCopy # <<>>

\* C13: when the GET of the source document fails, with a 404 as with any
\* other failure, the invocation ends in that error: the source request is
\* the only request ever issued (no target GET, no archive GET, no PUT), no
\* work list is computed and nothing is reported as an empty package.
C13_SourceFailureIsFatal ==
    (Len(requests) >= 1
     /\ requests[1].status \in {"404", "500", "no response"}) =>
        /\ pc = "failed"
        /\ error = "AxiosError"
        /\ Len(requests) = 1
        /\ requests[1].kind = "sourceInfo"
        /\ packageVersionsToCopy = <<>>
        /\ ~Reported("nothing", <<>>)
        /\ ~Reported("absent", <<>>)

C13_Witness ==
    /\ pc = "failed"
    /\ Len(requests) = 1
    /\ requests[1].kind = "sourceInfo"
    /\ requests[1].status = "404"

\* The request has ended the way that lets the invocation go on: it resolved,
\* or it is the target document's GET answered 404.
Completed(r) ==
    \/ r.status = "ok"
    \/ r.kind = "targetInfo" /\ r.status = "404"

\* C14: at most one request is in flight and it is the last one issued;
\* every request issued before another has completed; a PUT directly follows
\* the successful archive GET of its own version; an archive GET follows the
\* target document's GET or the successful PUT of another version.
C14_StrictlySequential ==
    /\ \A i \in 1..Len(requests) :
          requests[i].status = "pending" => i = Len(requests)
    /\ \A i \in 1..(Len(requests) - 1) : Completed(requests[i])
    /\ \A i \in 1..Len(requests) :
          requests[i].kind = "publish" =>
              /\ i > 1
              /\ requests[i - 1].kind = "archive"
              /\ requests[i - 1].version = requests[i].version
              /\ requests[i - 1].status = "ok"
    /\ \A i \in 1..Len(requests) :
          requests[i].kind = "archive" =>
              /\ i > 2
              /\ \/ i = 3 /\ requests[i - 1].kind = "targetInfo"
                 \/ /\ requests[i - 1].kind = "publish"
                    /\ requests[i - 1].status = "ok"
                    /\ requests[i - 1].version # requests[i].version

\* Two versions transferred one after the other.
C14_Witness ==
    /\ Len(requests) = 6
    /\ requests[3].kind = "archive" /\ requests[3].status = "ok"
    /\ requests[4].kind = "publish" /\ requests[4].status = "ok"
    /\ requests[5].kind = "archive" /\ requests[5].status = "ok"
    /\ requests[6].kind = "publish" /\ requests[6].status = "pending"
    /\ requests[4].version # requests[6].version

\* The versions whose PUT this invocation has seen resolve.
Uploaded ==
    {requests[i].version : i \in {j \in 1..Len(requests) :
        requests[j].kind = "publish" /\ requests[j].status = "ok"}}

\* C15: every PUT payload tags the version it publishes as latest; on a
\* target that applies the dist-tags of a payload, once the invocation has
\* uploaded a version (whether it then completes or aborts), the target's
\* latest is an uploaded version and no other uploaded version is higher.
C15_LatestIsHighestUploaded ==
    /\ \A i \in 1..Len(requests) :
          requests[i].kind = "publish" =>
              /\ requests[i].payload.latest = requests[i].version
              /\ requests[i].payload.version = requests[i].version
    /\ Uploaded # {} =>
          /\ target.latest \in Uploaded
          /\ \A v \in Uploaded \ {target.latest} : NotAfter(v, target.latest)

\* Two versions were uploaded, the invocation has ended, and the target's
\* latest is lower than a version the target held before.
C15_Witness ==
    /\ pc \in {"done", "failed"}
    /\ Cardinality(Uploaded) >= 2
    /\ target.latest \in Uploaded
    /\ \E w \in TargetKeys :
          /\ SemverValid(w)
          /\ SemverValid(target.latest)
          /\ SemverCompare(target.latest, w) < 0
====
